---- MODULE Spec2Model ----
(***************************************************************************)
(* Foodgram: the recipe API (src/foodgram/api) over the relational models  *)
(* (src/foodgram/recipes/models.py, src/backend/foodgram/users/models.py). *)
(* A state is the content of the database tables together with the last    *)
(* request handled, the response it got and the tables as they were before *)
(* it.  Every action is one HTTP request handled from start to finish.     *)
(***************************************************************************)
EXTENDS Bags, FiniteSets, Integers, Sequences, TLC

VARIABLES users, recipes, recipe_id_seq, addamounts, favorites, carts,
          subscriptions, request, response, pre, threads

tables == <<users, recipes, recipe_id_seq, addamounts, favorites, carts,
            subscriptions>>
vars == <<users, recipes, recipe_id_seq, addamounts, favorites, carts,
          subscriptions, request, response, pre, threads>>

(***************************************************************************)
(* Bounds of the model.                                                    *)
(***************************************************************************)
NUsers == 2
MaxIngredients == 2
MaxAmount == 1
MaxRecipes == 4
MaxLimit == 3

(***************************************************************************)
(* Values.  Primary keys are positive; None is Python's None, also what a  *)
(* request body carries for a field it leaves out and the pk of a row that *)
(* does not exist (the URL pattern \d+ admits 0).                          *)
(***************************************************************************)
None == 0
AnonymousUser == None
UserIds == 1..NUsers
RecipeIds == {1, 2}
TagIds == {1, 2}

HTTP_200_OK == 200
HTTP_201_CREATED == 201
HTTP_204_NO_CONTENT == 204
HTTP_400_BAD_REQUEST == 400
HTTP_401_UNAUTHORIZED == 401
HTTP_404_NOT_FOUND == 404
HTTP_500_INTERNAL_SERVER_ERROR == 500

\* foodgram.settings
FALSE_RESULT == 0
MINIMUM == 1
\* A request runs in one transaction: an unhandled exception rolls back what
\* the request wrote.
ATOMIC_REQUESTS == TRUE

(***************************************************************************)
(* The ingredient catalogue (Ingredient rows, loaded from ingredients.csv):*)
(* rows 1 and 2 differ in id only, row 3 has the same name in another unit.*)
(***************************************************************************)
Ingredient ==
    [i \in {1, 2, 3} |->
        [name |-> "Salt",
         measurement_unit |-> IF i = 3 THEN "kg" ELSE "g"]]

(***************************************************************************)
(* The ORM.  A table without a field of its own that the handlers read is  *)
(* the bag of its rows: the pk is what tells two equal rows apart.         *)
(***************************************************************************)
Rows(table) == BagToSet(table)

INSERT(table, row) == table (+) SetToBag({row})

\* QuerySet.delete(): every row of the set S goes.
DELETE(table, S) == [row \in (DOMAIN table) \ S |-> table[row]]

\* Model.delete() of one instance.
DELETE_ONE(table, row) == table (-) SetToBag({row})

\* A filter that leaves the user out.
filter_recipe_only(table, user, recipe) ==
    {row \in Rows(table) : row.recipe = recipe}

\* Favorite.objects.filter(user=..., recipe=...)
filter_user_recipe(table, user, recipe) ==
    {row \in Rows(table) : row.user = user /\ row.recipe = recipe}

\* dict.get(key): None when the key is missing.
get(data, key) == IF key \in DOMAIN data THEN data[key] ELSE None

DB ==
    [users |-> users, recipes |-> recipes, addamounts |-> addamounts,
     favorites |-> favorites, carts |-> carts,
     subscriptions |-> subscriptions]

\* No request is being handled.
NoRequest == [op |-> "none", user |-> None, data |-> <<>>]

\* The requests handled side by side (two worker processes of the server)
\* and the transaction mode of the database connection; none to begin with.
ThreadIds == {1, 2}
NoRow == [user |-> None, recipe |-> None]
IdleThread ==
    [pc |-> "idle", table |-> "none", user |-> None, data |-> NoRow,
     row |-> NoRow, status |-> None]
NoThreads == [atomic |-> ATOMIC_REQUESTS, run |-> [t \in ThreadIds |-> IdleThread]]
NoResponse == [status |-> HTTP_200_OK, list |-> {}]

\* The response of a handler, recorded with the request and the tables the
\* request found.
Reply(req, status, list) ==
    /\ request' = req
    /\ pre' = DB
    /\ response' = [status |-> status, list |-> list]
    /\ UNCHANGED threads

is_authenticated(user) == user # AnonymousUser /\ user \in users

(***************************************************************************)
(* Constraints of the models.                                              *)
(***************************************************************************)
\* The table takes every row (a model without the constraint).
no_constraint(table, row) == TRUE

\* Favorite.Meta.constraints: UniqueConstraint(fields=['user', 'recipe']).
\* TRUE when the table may take the row.
unique_user_favorites(table, row) ==
    filter_user_recipe(table, row.user, row.recipe) = {}

\* ShoppingCart.Meta.constraints: UniqueConstraint(fields=['user', 'recipe']).
unique_cart(table, row) ==
    filter_user_recipe(table, row.user, row.recipe) = {}

\* Subscription.Meta.constraints: UniqueConstraint(fields=('user', 'author')).
unique_subscription(table, row) ==
    {x \in Rows(table) : x.user = row.user /\ x.author = row.author} = {}

\* Every row passes (a model without the check).
no_check(row) == TRUE

\* Subscription.Meta.constraints:
\* CheckConstraint(check=~models.Q(author=models.F('author'))).
do_not_subscribe_again(row) == ~(row.author = row.author)

(***************************************************************************)
(* Favorites: POST and DELETE recipes/<recipe_id>/favorite/, and the       *)
(* DestroyModelMixin route DELETE recipes/<recipe_id>/favorite/<pk>/.      *)
(***************************************************************************)
\* The PrimaryKeyRelatedFields of fields = ('user', 'recipe'): both required,
\* both the pk of an existing row.
FavoriteSerializer_to_internal_value(data) ==
    data.user \in users /\ data.recipe \in DOMAIN recipes

\* A serializer without the validator.
no_validator(data) == TRUE

\* Meta.validators: UniqueTogetherValidator(queryset=Favorite.objects.all(),
\* fields=('user', 'recipe')).  TRUE when the data pass.
FavoriteSerializer_UniqueTogetherValidator(data) ==
    filter_user_recipe(favorites, data.user, data.recipe) = {}

\* validate(): looks the pair up under the key 'user_id'.  TRUE when the
\* data pass.
FavoriteSerializer_validate(data) ==
    LET user == get(data, "user_id")
        recipe_req == data["recipe"]
    IN  filter_user_recipe(favorites, user, recipe_req) = {}

FavoriteSerializer_is_valid(data) ==
    /\ FavoriteSerializer_to_internal_value(data)
    /\ FavoriteSerializer_UniqueTogetherValidator(data)
    /\ FavoriteSerializer_validate(data)

\* A create() without perform_create(): the row of the body stays as it
\* was inserted.
create_keeps_body_user(user, data) ==
    LET req == [op |-> "favorite_create", user |-> user, data |-> data]
        created == [user |-> data.user, recipe |-> data.recipe]
    IN  /\ UNCHANGED <<users, recipes, recipe_id_seq, addamounts, carts,
                       subscriptions>>
        /\ IF ~is_authenticated(user)
           THEN Reply(req, HTTP_401_UNAUTHORIZED, {})
                /\ UNCHANGED favorites
           ELSE IF ~FavoriteSerializer_is_valid(data)
           THEN Reply(req, HTTP_400_BAD_REQUEST, {})
                /\ UNCHANGED favorites
           ELSE IF ~unique_user_favorites(favorites, created)
           THEN Reply(req, HTTP_500_INTERNAL_SERVER_ERROR, {})
                /\ UNCHANGED favorites
           ELSE Reply(req, HTTP_201_CREATED, {})
                /\ favorites' = INSERT(favorites, created)

\* create(): serializer.save() inserts the row of the request body, then
\* perform_create() saves the same instance again with user=request.user.
FavoriteViewSet_create(user, data) ==
    LET req == [op |-> "favorite_create", user |-> user, data |-> data]
        created == [user |-> data.user, recipe |-> data.recipe]
        saved == [user |-> user, recipe |-> data.recipe]
        inserted == INSERT(favorites, created)
        others == DELETE_ONE(inserted, created)
    IN  /\ UNCHANGED <<users, recipes, recipe_id_seq, addamounts, carts,
                       subscriptions>>
        /\ IF ~is_authenticated(user)
           THEN Reply(req, HTTP_401_UNAUTHORIZED, {})
                /\ UNCHANGED favorites
           ELSE IF ~FavoriteSerializer_is_valid(data)
           THEN Reply(req, HTTP_400_BAD_REQUEST, {})
                /\ UNCHANGED favorites
           ELSE IF ~unique_user_favorites(favorites, created)
           THEN Reply(req, HTTP_500_INTERNAL_SERVER_ERROR, {})
                /\ UNCHANGED favorites
           ELSE IF ~unique_user_favorites(others, saved)
           THEN Reply(req, HTTP_500_INTERNAL_SERVER_ERROR, {})
                /\ favorites' = IF ATOMIC_REQUESTS THEN favorites
                                ELSE inserted
           ELSE Reply(req, HTTP_201_CREATED, {})
                /\ favorites' = INSERT(others, saved)

\* delete(): the recipe of the URL, the user of the session.
FavoriteViewSet_delete(user, recipe_id) ==
    LET req == [op |-> "favorite_delete", user |-> user,
                data |-> [recipe_id |-> recipe_id]]
        favorite == filter_user_recipe(favorites, user, recipe_id)
    IN  /\ UNCHANGED <<users, recipes, recipe_id_seq, addamounts, carts,
                       subscriptions>>
        /\ IF ~is_authenticated(user)
           THEN Reply(req, HTTP_401_UNAUTHORIZED, {})
                /\ UNCHANGED favorites
           ELSE IF recipe_id \notin DOMAIN recipes
           THEN Reply(req, HTTP_404_NOT_FOUND, {})
                /\ UNCHANGED favorites
           ELSE IF favorite # {}
           THEN Reply(req, HTTP_204_NO_CONTENT, {})
                /\ favorites' = DELETE(favorites, favorite)
           ELSE Reply(req, HTTP_400_BAD_REQUEST, {})
                /\ UNCHANGED favorites

\* DestroyModelMixin.destroy() on the detail route the router registers for
\* the viewset: the row whose pk the URL names, whoever owns it.
FavoriteViewSet_destroy(user, found, row) ==
    LET req == [op |-> "favorite_destroy", user |-> user,
                data |-> [found |-> found, pk |-> row]]
    IN  /\ UNCHANGED <<users, recipes, recipe_id_seq, addamounts, carts,
                       subscriptions>>
        /\ IF ~is_authenticated(user)
           THEN Reply(req, HTTP_401_UNAUTHORIZED, {})
                /\ UNCHANGED favorites
           ELSE IF ~found
           THEN Reply(req, HTTP_404_NOT_FOUND, {})
                /\ UNCHANGED favorites
           ELSE Reply(req, HTTP_204_NO_CONTENT, {})
                /\ favorites' = DELETE_ONE(favorites, row)

(***************************************************************************)
(* Shopping cart: POST and DELETE recipes/<recipe_id>/shopping_cart/, and  *)
(* DELETE recipes/<recipe_id>/shopping_cart/<pk>/.                         *)
(***************************************************************************)
ShoppingCartSerializer_to_internal_value(data) ==
    data.user \in users /\ data.recipe \in DOMAIN recipes

\* Meta.validators: UniqueTogetherValidator(
\* queryset=ShoppingCart.objects.all(), fields=('user', 'recipe')).
ShoppingCartSerializer_UniqueTogetherValidator(data) ==
    filter_user_recipe(carts, data.user, data.recipe) = {}

\* validate(): returns (raises nothing) for an anonymous requester, else
\* looks the pair up under the key 'user_id'.  TRUE when the data pass.
ShoppingCartSerializer_validate(requester, data) ==
    IF ~is_authenticated(requester)
    THEN TRUE
    ELSE LET user == get(data, "user_id")
             recipe_req == get(data, "recipe")
         IN  filter_user_recipe(carts, user, recipe_req) = {}

ShoppingCartSerializer_is_valid(requester, data) ==
    /\ ShoppingCartSerializer_to_internal_value(data)
    /\ ShoppingCartSerializer_UniqueTogetherValidator(data)
    /\ ShoppingCartSerializer_validate(requester, data)

ShoppingCartViewSet_create(user, data) ==
    LET req == [op |-> "cart_create", user |-> user, data |-> data]
        created == [user |-> data.user, recipe |-> data.recipe]
        saved == [user |-> user, recipe |-> data.recipe]
        inserted == INSERT(carts, created)
        others == DELETE_ONE(inserted, created)
    IN  /\ UNCHANGED <<users, recipes, recipe_id_seq, addamounts, favorites,
                       subscriptions>>
        /\ IF ~is_authenticated(user)
           THEN Reply(req, HTTP_401_UNAUTHORIZED, {})
                /\ UNCHANGED carts
           ELSE IF ~ShoppingCartSerializer_is_valid(user, data)
           THEN Reply(req, HTTP_400_BAD_REQUEST, {})
                /\ UNCHANGED carts
           ELSE IF ~unique_cart(carts, created)
           THEN Reply(req, HTTP_500_INTERNAL_SERVER_ERROR, {})
                /\ UNCHANGED carts
           ELSE IF ~unique_cart(others, saved)
           THEN Reply(req, HTTP_500_INTERNAL_SERVER_ERROR, {})
                /\ carts' = IF ATOMIC_REQUESTS THEN carts ELSE inserted
           ELSE Reply(req, HTTP_201_CREATED, {})
                /\ carts' = INSERT(others, saved)

ShoppingCartViewSet_delete(user, recipe_id) ==
    LET req == [op |-> "cart_delete", user |-> user,
                data |-> [recipe_id |-> recipe_id]]
        shopping_cart == filter_user_recipe(carts, user, recipe_id)
    IN  /\ UNCHANGED <<users, recipes, recipe_id_seq, addamounts, favorites,
                       subscriptions>>
        /\ IF ~is_authenticated(user)
           THEN Reply(req, HTTP_401_UNAUTHORIZED, {})
                /\ UNCHANGED carts
           ELSE IF recipe_id \notin DOMAIN recipes
           THEN Reply(req, HTTP_404_NOT_FOUND, {})
                /\ UNCHANGED carts
           ELSE IF shopping_cart # {}
           THEN Reply(req, HTTP_204_NO_CONTENT, {})
                /\ carts' = DELETE(carts, shopping_cart)
           ELSE Reply(req, HTTP_400_BAD_REQUEST, {})
                /\ UNCHANGED carts

\* A destroy() whose delete takes the pair out of the favorites too.
destroy_pair_in_both(user, found, row) ==
    LET req == [op |-> "cart_destroy", user |-> user,
                data |-> [found |-> found, pk |-> row]]
    IN  /\ UNCHANGED <<users, recipes, recipe_id_seq, addamounts,
                       subscriptions>>
        /\ IF ~is_authenticated(user)
           THEN Reply(req, HTTP_401_UNAUTHORIZED, {})
                /\ UNCHANGED <<carts, favorites>>
           ELSE IF ~found
           THEN Reply(req, HTTP_404_NOT_FOUND, {})
                /\ UNCHANGED <<carts, favorites>>
           ELSE Reply(req, HTTP_204_NO_CONTENT, {})
                /\ carts' = DELETE_ONE(carts, row)
                /\ favorites' = DELETE(favorites, {row})

ShoppingCartViewSet_destroy(user, found, row) ==
    LET req == [op |-> "cart_destroy", user |-> user,
                data |-> [found |-> found, pk |-> row]]
    IN  /\ UNCHANGED <<users, recipes, recipe_id_seq, addamounts, favorites,
                       subscriptions>>
        /\ IF ~is_authenticated(user)
           THEN Reply(req, HTTP_401_UNAUTHORIZED, {})
                /\ UNCHANGED carts
           ELSE IF ~found
           THEN Reply(req, HTTP_404_NOT_FOUND, {})
                /\ UNCHANGED carts
           ELSE Reply(req, HTTP_204_NO_CONTENT, {})
                /\ carts' = DELETE_ONE(carts, row)

(***************************************************************************)
(* Subscriptions: POST and DELETE users/<id>/subscribe/.                   *)
(***************************************************************************)
\* data = {'user': request.user.id, 'author': id}: two PrimaryKeyRelatedFields.
SubscriptionSerializer_to_internal_value(data) ==
    data.user \in users /\ data.author \in users

\* Meta.validators: UniqueTogetherValidator(
\* queryset=Subscription.objects.all(), fields=('user', 'author')).
SubscriptionSerializer_UniqueTogetherValidator(data) ==
    {x \in Rows(subscriptions) :
        x.user = data.user /\ x.author = data.author} = {}

\* validate(): reads 'id', 'user_id' and 'author_id' of the validated data,
\* whose keys are 'user' and 'author'.  TRUE when the data pass.
SubscriptionSerializer_validate(user, data) ==
    LET subscription_id == get(data, "id")
        user_id == get(data, "user_id")
        author_id == get(data, "author_id")
        subscription ==
            \* filter(id=..., user=..., author=...): the pk selects at most
            \* the one row it names, and no row has the pk None.
            subscription_id # None
            /\ \E x \in Rows(subscriptions) :
                   x.user = user_id /\ x.author = author_id
    IN  /\ ~subscription
        /\ ~(author_id = user)

SubscriptionSerializer_is_valid(user, data) ==
    /\ SubscriptionSerializer_to_internal_value(data)
    /\ SubscriptionSerializer_UniqueTogetherValidator(data)
    /\ SubscriptionSerializer_validate(user, data)

SubscriptionCreateDeleteAPIView_post(user, id) ==
    LET data == [user |-> user, author |-> id]
        req == [op |-> "subscribe_post", user |-> user, data |-> data]
        row == [user |-> data.user, author |-> data.author]
    IN  /\ UNCHANGED <<users, recipes, recipe_id_seq, addamounts, favorites,
                       carts>>
        /\ IF ~is_authenticated(user)
           THEN Reply(req, HTTP_401_UNAUTHORIZED, {})
                /\ UNCHANGED subscriptions
           ELSE IF ~SubscriptionSerializer_is_valid(user, data)
           THEN Reply(req, HTTP_400_BAD_REQUEST, {})
                /\ UNCHANGED subscriptions
           ELSE IF ~(unique_subscription(subscriptions, row)
                     /\ do_not_subscribe_again(row))
           THEN Reply(req, HTTP_500_INTERNAL_SERVER_ERROR, {})
                /\ UNCHANGED subscriptions
           ELSE Reply(req, HTTP_201_CREATED, {})
                /\ subscriptions' = INSERT(subscriptions, row)

SubscriptionCreateDeleteAPIView_delete(user, id) ==
    LET req == [op |-> "subscribe_delete", user |-> user,
                data |-> [user |-> user, author |-> id]]
        subscription ==
            {x \in Rows(subscriptions) : x.user = user /\ x.author = id}
    IN  /\ UNCHANGED <<users, recipes, recipe_id_seq, addamounts, favorites,
                       carts>>
        /\ IF ~is_authenticated(user)
           THEN Reply(req, HTTP_401_UNAUTHORIZED, {})
                /\ UNCHANGED subscriptions
           ELSE IF id \notin users \/ subscription = {}
           THEN Reply(req, HTTP_404_NOT_FOUND, {})
                /\ UNCHANGED subscriptions
           ELSE Reply(req, HTTP_204_NO_CONTENT, {})
                /\ subscriptions' = DELETE(subscriptions, subscription)

(***************************************************************************)
(* Deletion.  Every foreign key of the models is on_delete=CASCADE.        *)
(***************************************************************************)
\* on_delete=DO_NOTHING: the rows stay.
DO_NOTHING(table, ids) == table

\* A foreign key that lets the recipes outlive their author.
keep_recipes(table, id) == {}

\* Addamount.recipe
Addamount_recipe_on_delete(table, ids) ==
    DELETE(table, {row \in Rows(table) : row.recipe \in ids})

\* Favorite.recipe
Favorite_recipe_on_delete(table, ids) ==
    DELETE(table, {row \in Rows(table) : row.recipe \in ids})

\* ShoppingCart.recipe
ShoppingCart_recipe_on_delete(table, ids) ==
    DELETE(table, {row \in Rows(table) : row.recipe \in ids})

\* Favorite.user
Favorite_user_on_delete(table, id) ==
    DELETE(table, {row \in Rows(table) : row.user = id})

\* ShoppingCart.user
ShoppingCart_user_on_delete(table, id) ==
    DELETE(table, {row \in Rows(table) : row.user = id})

\* Recipe.author: the recipes that go with their author.
Recipe_author_on_delete(table, id) ==
    {r \in DOMAIN table : table[r].author = id}

\* Subscription.user and Subscription.author
Subscription_on_delete(table, id) ==
    DELETE(table, {row \in Rows(table) : row.user = id \/ row.author = id})

\* ModelViewSet.destroy() of RecipeViewSet, under IsAuthenticatedOrReadOnly.
RecipeViewSet_destroy(user, pk) ==
    LET req == [op |-> "recipe_destroy", user |-> user,
                data |-> [pk |-> pk]]
    IN  /\ UNCHANGED <<users, recipe_id_seq, subscriptions>>
        /\ IF ~is_authenticated(user)
           THEN Reply(req, HTTP_401_UNAUTHORIZED, {})
                /\ UNCHANGED <<recipes, addamounts, favorites, carts>>
           ELSE IF pk \notin DOMAIN recipes
           THEN Reply(req, HTTP_404_NOT_FOUND, {})
                /\ UNCHANGED <<recipes, addamounts, favorites, carts>>
           ELSE /\ Reply(req, HTTP_204_NO_CONTENT, {})
                /\ recipes' = [r \in (DOMAIN recipes) \ {pk} |-> recipes[r]]
                /\ addamounts' = Addamount_recipe_on_delete(addamounts, {pk})
                /\ favorites' = Favorite_recipe_on_delete(favorites, {pk})
                /\ carts' = ShoppingCart_recipe_on_delete(carts, {pk})

\* The admin site's delete of a User (CustomUserAdmin).
CustomUserAdmin_delete(id) ==
    LET req == [op |-> "admin_delete_user", user |-> None,
                data |-> [id |-> id]]
        gone == Recipe_author_on_delete(recipes, id)
    IN  /\ id \in users
        /\ Reply(req, HTTP_200_OK, {})
        /\ UNCHANGED recipe_id_seq
        /\ users' = users \ {id}
        /\ recipes' = [r \in (DOMAIN recipes) \ gone |-> recipes[r]]
        /\ addamounts' = Addamount_recipe_on_delete(addamounts, gone)
        /\ favorites' =
               Favorite_user_on_delete(
                   Favorite_recipe_on_delete(favorites, gone), id)
        /\ carts' =
               ShoppingCart_user_on_delete(
                   ShoppingCart_recipe_on_delete(carts, gone), id)
        /\ subscriptions' = Subscription_on_delete(subscriptions, id)

(***************************************************************************)
(* The shopping list: GET recipes/download_shopping_cart/.                 *)
(***************************************************************************)
RECURSIVE SumOf(_)
SumOf(S) ==
    IF S = {} THEN 0
    ELSE LET x == CHOOSE y \in S : TRUE IN x.amount + SumOf(S \ {x})

\* A join with the cart rows of every user.
join_every_cart(adds, cart, user) ==
    UNION {{[a |-> t[1], k |-> k, c |-> t[2], j |-> j,
             amount |-> t[1].amount] :
               k \in 1..adds[t[1]], j \in 1..cart[t[2]]} :
           t \in {t \in Rows(adds) \X Rows(cart) :
                     t[2].recipe = t[1].recipe}}

\* Addamount.objects.filter(recipe__cart__user=user): the join of the
\* Addamount rows with the cart rows of the user, one joined row for every
\* pair of rows (copy k of the Addamount row, copy j of the cart row).
ShoppingCart_join(adds, cart, user) ==
    UNION {{[a |-> t[1], k |-> k, c |-> t[2], j |-> j,
             amount |-> t[1].amount] :
               k \in 1..adds[t[1]], j \in 1..cart[t[2]]} :
           t \in {t \in Rows(adds) \X Rows(cart) :
                     t[2].user = user /\ t[2].recipe = t[1].recipe}}

\* .values('ingredients__name', 'ingredients__measurement_unit')
\* .annotate(total=Sum('amount')): one dict for every (name, unit) group.
ShoppingCart_values_annotate(adds, cart, user) ==
    LET joined == ShoppingCart_join(adds, cart, user)
        key(x) == <<Ingredient[x.a.ingredients].name,
                    Ingredient[x.a.ingredients].measurement_unit>>
    IN  {[ingredients__name |-> g[1],
          ingredients__measurement_unit |-> g[2],
          total |-> SumOf({x \in joined : key(x) = g})] :
            g \in {key(x) : x \in joined}}

\* for field in ingredients: name = field[0] ...: the subscripts 0..3 of a
\* row, which is a dict keyed by the names of values() and annotate().
\* TRUE when the subscripts are keys of the row.
download_shopping_cart_subscripts(field) ==
    {"0", "1", "2", "3"} \subseteq DOMAIN field

\* The buffer the loop builds, keyed by field[0]; the loop raises KeyError
\* on the first row whose subscripts are not keys.
download_shopping_cart_loop(ingredients) ==
    IF \E field \in ingredients : ~download_shopping_cart_subscripts(field)
    THEN [raised |-> TRUE, buffer |-> {}]
    ELSE [raised |-> FALSE,
          buffer |->
              {[name |-> field["1"], measurement_unit |-> field["2"],
                total |-> SumOf({[amount |-> f["3"], of |-> f] :
                                     f \in {f \in ingredients :
                                               f["0"] = field["0"]}})] :
                  field \in ingredients}]

\* download_shopping_cart(): IsAuthorOnly.has_permission lets every GET in.
\* The document drawn holds the title alone ('Список покупок'): no line of
\* the buffer is drawn, and the buffer is handed to Canvas as its file name,
\* so that a request that got through the loop ends either way.
RecipeViewSet_download_shopping_cart(user, saved) ==
    LET req == [op |-> "download_shopping_cart", user |-> user,
                data |-> <<>>]
        ingredients == ShoppingCart_values_annotate(addamounts, carts, user)
        loop == download_shopping_cart_loop(ingredients)
    IN  /\ UNCHANGED tables
        /\ IF ~is_authenticated(user)
           THEN Reply(req, HTTP_500_INTERNAL_SERVER_ERROR, {})
           ELSE IF loop.raised
           THEN Reply(req, HTTP_500_INTERNAL_SERVER_ERROR, {})
           ELSE IF saved
           THEN Reply(req, HTTP_200_OK, {})
           ELSE Reply(req, HTTP_500_INTERNAL_SERVER_ERROR, {})

(***************************************************************************)
(* Recipes read back: RecipeListRetrieveSerializer, which serves GET       *)
(* recipes/<pk>/ and, through RecipeManipulationSerializer's               *)
(* to_representation(), the response of every write.                       *)
(***************************************************************************)
\* A response that carries a representation.
ReplyData(req, status, data) ==
    /\ request' = req
    /\ pre' = DB
    /\ response' = [status |-> status, list |-> {}, data |-> data]
    /\ UNCHANGED threads

\* CustomUserSerializer.get_is_subscribed(), which renders a user (the
\* author of a recipe, the author of a subscription).  It starts with
\* reverse('api:users_list-me', args=[user.pk]) on a route that takes no
\* pk: for a signed-in user the router's format-suffix pattern of the route
\* takes the pk and a URL comes back, which is the path of none of the
\* requests here; for an anonymous user the pk is None and whether a URL
\* comes back or NoReverseMatch is raised is left open (reversed).
CustomUserSerializer_get_is_subscribed(user, obj, reversed) ==
    IF ~reversed THEN [raised |-> TRUE, value |-> FALSE]
    ELSE [raised |-> FALSE,
          value |-> IF is_authenticated(user)
                    THEN \E row \in Rows(subscriptions) :
                             row.user = user /\ row.author = obj
                    ELSE FALSE]

\* The outcomes of the reverse() for a requester.
Reversed(user) == IF is_authenticated(user) THEN {TRUE} ELSE BOOLEAN

\* The context the serializer is built with: get_serializer_context() of
\* the view gives 'request', 'format' and 'view'; to_representation() of
\* RecipeManipulationSerializer passes 'request' alone.
RecipeListRetrieveSerializer_context(method, user) ==
    [request |-> [method |-> method, user |-> user]]

\* get_ingredients(): AddamountSerializer(many=True) over the Addamount
\* rows of the recipe, a list kept as a bag.
RecipeListRetrieveSerializer_get_ingredients(adds, obj) ==
    LET rows == {row \in DOMAIN adds : row.recipe = obj}
        AddamountSerializer(row) ==
            [id |-> row.ingredients,
             name |-> Ingredient[row.ingredients].name,
             measurement_unit |->
                 Ingredient[row.ingredients].measurement_unit,
             amount |-> row.amount]
    IN  [x \in {AddamountSerializer(row) : row \in rows} |->
            adds[[recipe |-> obj, ingredients |-> x.id,
                  amount |-> x.amount]]]

\* A get_is_favorited() that looks the recipe itself up.
get_is_favorited_of_obj(context, obj) ==
    /\ is_authenticated(context.request.user)
    /\ filter_user_recipe(favorites, context.request.user, obj) # {}

\* get_is_favorited()
RecipeListRetrieveSerializer_get_is_favorited(context, obj) ==
    IF context.request.method = "POST" THEN FALSE
    ELSE LET user == context.request.user
             recipe == get(context, "recipe_id")
         IN  IF is_authenticated(user)
             THEN filter_user_recipe(favorites, user, recipe) # {}
             ELSE FALSE

\* get_is_in_shopping_cart()
RecipeListRetrieveSerializer_get_is_in_shopping_cart(context, obj) ==
    IF context.request.method = "POST" THEN FALSE
    ELSE LET user == context.request.user
             recipe == get(context, "recipe_id")
         IN  IF is_authenticated(user)
             THEN filter_user_recipe(carts, user, recipe) # {}
             ELSE FALSE

\* The representation of a recipe: instance is the Recipe row with its pk,
\* adds the Addamount table at the time of the response.
RecipeListRetrieveSerializer_to_representation(context, instance, adds) ==
    [id |-> instance.pk,
     tags |-> instance.tags,
     author |-> instance.author,
     ingredients |->
         RecipeListRetrieveSerializer_get_ingredients(adds, instance.pk),
     is_favorited |->
         RecipeListRetrieveSerializer_get_is_favorited(context,
                                                       instance.pk),
     is_in_shopping_cart |->
         RecipeListRetrieveSerializer_get_is_in_shopping_cart(context,
                                                              instance.pk),
     cooking_time |-> instance.cooking_time]

\* get_object(): the Recipe row of the pk.
RecipeViewSet_get_object(pk) ==
    [pk |-> pk, author |-> recipes[pk].author, tags |-> recipes[pk].tags,
     cooking_time |-> recipes[pk].cooking_time]

\* ModelViewSet.retrieve() of RecipeViewSet: GET is a safe method, open to
\* every requester.  The representation renders the author with
\* CustomUserSerializer.
RecipeViewSet_retrieve(user, pk, reversed) ==
    LET req == [op |-> "recipe_retrieve", user |-> user,
                data |-> [pk |-> pk]]
        context == RecipeListRetrieveSerializer_context("GET", user)
    IN  /\ UNCHANGED tables
        /\ IF pk \notin DOMAIN recipes
           THEN Reply(req, HTTP_404_NOT_FOUND, {})
           ELSE IF /\ recipes[pk].author # None
                   /\ CustomUserSerializer_get_is_subscribed(
                          user, recipes[pk].author, reversed).raised
           THEN Reply(req, HTTP_500_INTERNAL_SERVER_ERROR, {})
           ELSE ReplyData(req, HTTP_200_OK,
                    RecipeListRetrieveSerializer_to_representation(
                        context, RecipeViewSet_get_object(pk), addamounts))

(***************************************************************************)
(* Recipes: POST recipes/ (ModelViewSet.create of RecipeViewSet with       *)
(* RecipeManipulationSerializer).                                          *)
(***************************************************************************)
\* The fields of the serializer that take input: 'id' is the model's pk and
\* ingredients = AddamountCUDSerializer(many=True, read_only=True).
RecipeManipulationSerializer_writable_fields ==
    {"tags", "image", "name", "text", "cooking_time"}

\* The fields' own validation: tags name existing Tag rows, image is given,
\* name and text are not blank, cooking_time is given and passes the
\* model's MinValueValidator(1).
RecipeManipulationSerializer_to_internal_value(data) ==
    /\ data.tags \subseteq TagIds
    /\ data.image # None
    /\ data.name # ""
    /\ data.text # ""
    /\ data.cooking_time # None
    /\ data.cooking_time >= 1

\* validate_ingredients(): HTTP_200_OK when the list passes, else the
\* status of the exception raised.
RECURSIVE validate_ingredients_loop(_, _, _)
validate_ingredients_loop(ingredients, i, ingredients_id) ==
    IF i > Len(ingredients) THEN HTTP_200_OK
    ELSE LET item == ingredients[i]
         IN  IF item.id \notin DOMAIN Ingredient THEN HTTP_404_NOT_FOUND
             ELSE IF item.amount < MINIMUM THEN HTTP_400_BAD_REQUEST
             ELSE IF item.id \in ingredients_id THEN HTTP_400_BAD_REQUEST
             ELSE validate_ingredients_loop(ingredients, i + 1,
                                            ingredients_id \cup {item.id})

RecipeManipulationSerializer_validate_ingredients(initial_data) ==
    LET ingredients == initial_data["ingredients"]
    IN  IF Len(ingredients) = FALSE_RESULT THEN HTTP_400_BAD_REQUEST
        ELSE validate_ingredients_loop(ingredients, 1, {})

\* validate(): TRUE when the data pass.
RecipeManipulationSerializer_validate(user, data) ==
    LET tags == get(data, "tags")
        image == get(data, "image")
        name == get(data, "name")
        text == get(data, "text")
        cooking_time == get(data, "cooking_time")
    IN  /\ is_authenticated(user)
        /\ tags # {}
        /\ image # None
        /\ name # ""
        /\ text # ""
        /\ cooking_time # None /\ ~(cooking_time <= FALSE_RESULT)

\* serializer.errors: the rules the response reports.  The fields' own
\* validation reports every field that fails, each under its name, with the
\* messages of the framework; validate_ingredients() and validate() raise
\* at the first test that fails, with the message of the serializer.
RecipeManipulationSerializer_field_errors(data) ==
    {<<"field", f>> :
        f \in {g \in RecipeManipulationSerializer_writable_fields :
                  \/ g = "tags" /\ ~(data.tags \subseteq TagIds)
                  \/ g = "image" /\ data.image = None
                  \/ g = "name" /\ data.name = ""
                  \/ g = "text" /\ data.text = ""
                  \/ g = "cooking_time"
                     /\ (data.cooking_time = None
                         \/ data.cooking_time < 1)}}

RECURSIVE validate_ingredients_detail(_, _, _)
validate_ingredients_detail(ingredients, i, ingredients_id) ==
    IF i > Len(ingredients) THEN {}
    ELSE LET item == ingredients[i]
         IN  IF item.id \notin DOMAIN Ingredient
             THEN {<<"validate_ingredients", "not_found">>}
             ELSE IF item.amount < MINIMUM
             THEN {<<"validate_ingredients", "amount">>}
             ELSE IF item.id \in ingredients_id
             THEN {<<"validate_ingredients", "repeated">>}
             ELSE validate_ingredients_detail(ingredients, i + 1,
                                              ingredients_id \cup {item.id})

RecipeManipulationSerializer_validate_detail(user, data) ==
    IF ~is_authenticated(user) THEN {<<"validate", "user">>}
    ELSE IF get(data, "tags") = {} THEN {<<"validate", "tags">>}
    ELSE IF get(data, "image") = None THEN {<<"validate", "image">>}
    ELSE IF get(data, "name") = "" THEN {<<"validate", "name">>}
    ELSE IF get(data, "text") = "" THEN {<<"validate", "text">>}
    ELSE IF get(data, "cooking_time") = None
            \/ get(data, "cooking_time") <= FALSE_RESULT
    THEN {<<"validate", "cooking_time">>}
    ELSE {}

RecipeManipulationSerializer_errors(user, data) ==
    IF RecipeManipulationSerializer_field_errors(data) # {}
    THEN RecipeManipulationSerializer_field_errors(data)
    ELSE IF "ingredients" \in RecipeManipulationSerializer_writable_fields
    THEN IF Len(data.ingredients) = FALSE_RESULT
         THEN {<<"validate_ingredients", "ingredients">>}
         ELSE IF validate_ingredients_detail(data.ingredients, 1, {}) # {}
         THEN validate_ingredients_detail(data.ingredients, 1, {})
         ELSE RecipeManipulationSerializer_validate_detail(user, data)
    ELSE RecipeManipulationSerializer_validate_detail(user, data)

\* An is_valid() that lets every body through.
skip_validation(user, data) == HTTP_200_OK

\* is_valid(): the writable fields, the validate_<field> methods of the
\* writable fields, then validate().  The status of the error, or
\* HTTP_200_OK.
RecipeManipulationSerializer_is_valid(user, data) ==
    IF ~RecipeManipulationSerializer_to_internal_value(data)
    THEN HTTP_400_BAD_REQUEST
    ELSE IF /\ "ingredients" \in RecipeManipulationSerializer_writable_fields
            /\ RecipeManipulationSerializer_validate_ingredients(data)
                   # HTTP_200_OK
    THEN RecipeManipulationSerializer_validate_ingredients(data)
    ELSE IF ~RecipeManipulationSerializer_validate(user, data)
    THEN HTTP_400_BAD_REQUEST
    ELSE HTTP_200_OK

\* A perform_create() that hands the ingredients of the request to save().
perform_create_with_ingredients(user, data) ==
    [author |-> user, ingredients |-> data.ingredients]

\* perform_create(): serializer.save(author=self.request.user), the keyword
\* arguments save() adds to the validated data.
RecipeViewSet_perform_create(user, data) == [author |-> user]

\* serializer.validated_data as create() gets it.
RecipeManipulationSerializer_validated_data(user, data) ==
    [f \in RecipeManipulationSerializer_writable_fields |-> data[f]]
        @@ RecipeViewSet_perform_create(user, data)

\* create_ingredients(): the Addamount rows bulk_create() inserts.
RecipeManipulationSerializer_create_ingredients(recipe, ingredients) ==
    LET row(i) == [recipe |-> recipe, ingredients |-> ingredients[i].id,
                   amount |-> ingredients[i].amount]
    IN  [x \in {row(i) : i \in DOMAIN ingredients} |->
            Cardinality({i \in DOMAIN ingredients : row(i) = x})]

\* A save() that inserts the Recipe first and commits it, and then fails.
save_commits_then_fails(pk, validated_data) ==
    [raised |-> TRUE, recipe_id_seq |-> pk,
     recipes |-> recipes @@
                 (pk :> [author |-> validated_data["author"],
                         tags |-> validated_data["tags"],
                         cooking_time |-> validated_data["cooking_time"]]),
     addamounts |-> addamounts]

\* serializer.save() of a create, RecipeManipulationSerializer.create()
\* with the transaction of the request around it: whether it raised, and
\* the tables it leaves.  create() pops 'ingredients' from the validated
\* data first of all (KeyError when the key is missing, nothing written
\* yet), then inserts the Recipe, sets its tags and bulk_create()s the
\* Addamount rows, which breaks the foreign key to Ingredient for an id
\* that names no row.  The sequence of the pk is not rolled back.
RecipeManipulationSerializer_save(pk, validated_data) ==
    LET created ==
            recipes @@
            (pk :> [author |-> validated_data["author"],
                    tags |-> validated_data["tags"],
                    cooking_time |-> validated_data["cooking_time"]])
    IN  IF "ingredients" \notin DOMAIN validated_data
        THEN [raised |-> TRUE, recipe_id_seq |-> recipe_id_seq,
              recipes |-> recipes, addamounts |-> addamounts]
        ELSE IF \E i \in DOMAIN validated_data["ingredients"] :
                    validated_data["ingredients"][i].id
                        \notin DOMAIN Ingredient
        THEN [raised |-> TRUE, recipe_id_seq |-> pk,
              recipes |-> IF ATOMIC_REQUESTS THEN recipes ELSE created,
              addamounts |-> addamounts]
        ELSE [raised |-> FALSE, recipe_id_seq |-> pk,
              recipes |-> created,
              addamounts |->
                  addamounts (+)
                  RecipeManipulationSerializer_create_ingredients(
                      pk, validated_data["ingredients"])]

\* ModelViewSet.create(): is_valid(raise_exception=True), perform_create()
\* with serializer.save() in it, and the representation of the new recipe.
\* An error response carries the rules it reports; an unhandled exception
\* of save() is a 500 that reports none.
RecipeViewSet_create(user, data) ==
    LET req == [op |-> "recipe_create", user |-> user, data |-> data]
        valid == RecipeManipulationSerializer_is_valid(user, data)
        validated_data ==
            RecipeManipulationSerializer_validated_data(user, data)
        pk == recipe_id_seq + 1
        saved == RecipeManipulationSerializer_save(pk, validated_data)
    IN  /\ UNCHANGED <<users, favorites, carts, subscriptions>>
        /\ IF ~is_authenticated(user)
           THEN ReplyData(req, HTTP_401_UNAUTHORIZED,
                          [detail |-> {<<"permission", "user">>}])
                /\ UNCHANGED <<recipes, recipe_id_seq, addamounts>>
           ELSE IF valid # HTTP_200_OK
           THEN ReplyData(req, valid,
                          [detail |->
                              RecipeManipulationSerializer_errors(user,
                                                                  data)])
                /\ UNCHANGED <<recipes, recipe_id_seq, addamounts>>
           ELSE /\ IF saved.raised
                   THEN ReplyData(req, HTTP_500_INTERNAL_SERVER_ERROR,
                                  [detail |-> {}])
                   ELSE ReplyData(
                            req, HTTP_201_CREATED,
                            RecipeListRetrieveSerializer_to_representation(
                                RecipeListRetrieveSerializer_context("POST",
                                                                     user),
                                [pk |-> pk,
                                 author |-> validated_data["author"],
                                 tags |-> validated_data["tags"],
                                 cooking_time |->
                                     validated_data["cooking_time"]],
                                saved.addamounts))
                /\ recipe_id_seq' = saved.recipe_id_seq
                /\ recipes' = saved.recipes
                /\ addamounts' = saved.addamounts

(***************************************************************************)
(* Recipes updated: PUT and PATCH recipes/<pk>/ (ModelViewSet.update of    *)
(* RecipeViewSet with RecipeManipulationSerializer).                       *)
(***************************************************************************)
\* A field the body carries.  Only image and cooking_time are ever left out
\* of the bodies of the model; tags, name and text come empty instead.
present(data, f) ==
    IF f \in {"image", "cooking_time"} THEN data[f] # None ELSE TRUE

\* The fields' own validation under partial=True: a field left out is
\* skipped.
RecipeManipulationSerializer_partial_to_internal_value(data) ==
    /\ data.tags \subseteq TagIds
    /\ data.name # ""
    /\ data.text # ""
    /\ present(data, "cooking_time") => data.cooking_time >= 1

\* serializer.validated_data as update() gets it: perform_update() calls
\* serializer.save() with no keyword arguments.
RecipeManipulationSerializer_update_validated_data(data) ==
    [f \in {g \in RecipeManipulationSerializer_writable_fields :
                present(data, g)} |-> data[f]]

\* is_valid() of an update.
RecipeManipulationSerializer_update_is_valid(user, data, partial) ==
    IF partial
    THEN IF ~RecipeManipulationSerializer_partial_to_internal_value(data)
         THEN HTTP_400_BAD_REQUEST
         ELSE IF ~RecipeManipulationSerializer_validate(
                      user,
                      RecipeManipulationSerializer_update_validated_data(
                          data))
         THEN HTTP_400_BAD_REQUEST
         ELSE HTTP_200_OK
    ELSE RecipeManipulationSerializer_is_valid(user, data)

\* update(): the instance as saved.  With 'ingredients' among the validated
\* data the links are cleared and create_ingredients(ingredients, instance)
\* is called with its arguments swapped, which raises (a Recipe is not
\* iterable).
RecipeManipulationSerializer_update(user, instance, validated_data) ==
    LET author == IF "author" \in DOMAIN validated_data
                  THEN validated_data["author"]
                  ELSE instance.author
    IN  IF user # author
        THEN [raised |-> FALSE, cleared |-> FALSE, instance |-> instance]
        ELSE IF "ingredients" \in DOMAIN validated_data
        THEN [raised |-> TRUE, cleared |-> TRUE, instance |-> instance]
        ELSE [raised |-> FALSE, cleared |-> FALSE,
              instance |->
                  [instance EXCEPT
                      !.tags = IF "tags" \in DOMAIN validated_data
                               THEN validated_data["tags"] ELSE @,
                      !.cooking_time =
                          IF "cooking_time" \in DOMAIN validated_data
                          THEN validated_data["cooking_time"] ELSE @]]

\* UpdateModelMixin.update() / partial_update(): permission
\* (IsAuthenticatedOrReadOnly), get_object(), is_valid(raise_exception=True),
\* perform_update(), Response(serializer.data).
RecipeViewSet_update(user, pk, data, partial) ==
    LET req == [op |-> "recipe_update", user |-> user,
                data |-> [pk |-> pk, partial |-> partial, body |-> data]]
        method == IF partial THEN "PATCH" ELSE "PUT"
        valid == RecipeManipulationSerializer_update_is_valid(user, data,
                                                              partial)
        validated_data ==
            RecipeManipulationSerializer_update_validated_data(data)
        saved == RecipeManipulationSerializer_update(
                     user, RecipeViewSet_get_object(pk), validated_data)
        links == {row \in Rows(addamounts) : row.recipe = pk}
    IN  /\ UNCHANGED <<users, recipe_id_seq, favorites, carts,
                       subscriptions>>
        /\ IF ~is_authenticated(user)
           THEN Reply(req, HTTP_401_UNAUTHORIZED, {})
                /\ UNCHANGED <<recipes, addamounts>>
           ELSE IF pk \notin DOMAIN recipes
           THEN Reply(req, HTTP_404_NOT_FOUND, {})
                /\ UNCHANGED <<recipes, addamounts>>
           ELSE IF valid # HTTP_200_OK
           THEN Reply(req, valid, {})
                /\ UNCHANGED <<recipes, addamounts>>
           ELSE IF saved.raised
           THEN /\ Reply(req, HTTP_500_INTERNAL_SERVER_ERROR, {})
                /\ UNCHANGED recipes
                /\ addamounts' = IF ATOMIC_REQUESTS THEN addamounts
                                 ELSE DELETE(addamounts, links)
           ELSE /\ ReplyData(
                       req, HTTP_200_OK,
                       RecipeListRetrieveSerializer_to_representation(
                           RecipeListRetrieveSerializer_context(method,
                                                                user),
                           saved.instance, addamounts))
                /\ recipes' =
                       [recipes EXCEPT
                           ![pk] = [author |-> saved.instance.author,
                                    tags |-> saved.instance.tags,
                                    cooking_time |->
                                        saved.instance.cooking_time]]
                /\ UNCHANGED addamounts

(***************************************************************************)
(* Subscriptions rendered: SubscriptionSerializer.to_representation(),     *)
(* which hands the author of a Subscription to SubscriptionListSerializer  *)
(* (the entries of GET users/subscriptions/ and the response of a          *)
(* subscribe).                                                             *)
(***************************************************************************)
\* Recipe.Meta.ordering = ['-pub_date']: pub_date is set when the row is
\* inserted, so the latest pk comes first.
RECURSIVE order_by_pub_date(_)
order_by_pub_date(S) ==
    IF S = {} THEN << >>
    ELSE LET latest == CHOOSE r \in S : \A q \in S : q <= r
         IN  <<latest>> \o order_by_pub_date(S \ {latest})

\* obj.recipes.all(): the recipes whose author is obj (related_name).
User_recipes(obj) ==
    order_by_pub_date({r \in DOMAIN recipes : recipes[r].author = obj})

\* queryset[:k].  A negative k raises ("Negative indexing is not
\* supported").
slice(queryset, k) ==
    IF k < 0 THEN [raised |-> TRUE, value |-> << >>]
    ELSE [raised |-> FALSE,
          value |-> SubSeq(queryset, 1,
                           IF k < Len(queryset) THEN k
                           ELSE Len(queryset))]

\* PartialRecipeSerializer(recipes, many=True).data
PartialRecipeSerializer(queryset) ==
    [i \in DOMAIN queryset |->
        [id |-> queryset[i],
         cooking_time |-> recipes[queryset[i]].cooking_time]]

\* A get_recipes() that takes no limit.
get_recipes_unlimited(user, obj, query_params) ==
    IF ~is_authenticated(user) THEN [raised |-> FALSE, value |-> FALSE]
    ELSE [raised |-> FALSE,
          value |-> PartialRecipeSerializer(User_recipes(obj))]

\* SubscriptionListSerializer.get_recipes(): query_params holds the key
\* 'recipes_limit' when the request gives the parameter, with the number
\* int() makes of it.
SubscriptionListSerializer_get_recipes(user, obj, query_params) ==
    IF ~is_authenticated(user) THEN [raised |-> FALSE, value |-> FALSE]
    ELSE IF "recipes_limit" \in DOMAIN query_params
    THEN LET recipes_ == slice(User_recipes(obj),
                               query_params["recipes_limit"])
         IN  [raised |-> recipes_.raised,
              value |-> PartialRecipeSerializer(recipes_.value)]
    ELSE [raised |-> FALSE,
          value |-> PartialRecipeSerializer(User_recipes(obj))]

\* A get_recipes_count() that counts for every requester.
get_recipes_count_for_all(user, obj) ==
    [raised |-> FALSE,
     value |-> Cardinality({r \in DOMAIN recipes : recipes[r].author = obj})]

\* SubscriptionListSerializer.get_recipes_count(): raised stands for
\* exceptions.NotAuthenticated.
SubscriptionListSerializer_get_recipes_count(user, obj) ==
    IF is_authenticated(user)
    THEN [raised |-> FALSE,
          value |-> Cardinality({r \in DOMAIN recipes :
                                    recipes[r].author = obj})]
    ELSE [raised |-> TRUE, value |-> None]

\* SubscriptionListSerializer(obj, context).data: the fields are computed in
\* their order, is_subscribed, recipes, recipes_count, and the first
\* exception ends the request with its status.
SubscriptionListSerializer_data(user, obj, query_params, reversed) ==
    LET is_subscribed ==
            CustomUserSerializer_get_is_subscribed(user, obj, reversed)
        recipes_ ==
            SubscriptionListSerializer_get_recipes(user, obj, query_params)
        recipes_count ==
            SubscriptionListSerializer_get_recipes_count(user, obj)
    IN  IF is_subscribed.raised \/ recipes_.raised
        THEN [status |-> HTTP_500_INTERNAL_SERVER_ERROR, value |-> << >>]
        ELSE IF recipes_count.raised
        THEN [status |-> HTTP_401_UNAUTHORIZED, value |-> << >>]
        ELSE [status |-> HTTP_200_OK,
              value |-> [id |-> obj,
                         is_subscribed |-> is_subscribed.value,
                         recipes |-> recipes_.value,
                         recipes_count |-> recipes_count.value]]

\* SubscriptionSerializer.to_representation(instance) in the context of a
\* request: SubscriptionListSerializer(instance.author, context).data.
SubscriptionSerializer_to_representation(user, instance, query_params, reversed) ==
    LET req == [op |-> "subscription_representation", user |-> user,
                data |-> [instance |-> instance,
                          query_params |-> query_params]]
        data == SubscriptionListSerializer_data(user, instance.author,
                                                query_params, reversed)
    IN  /\ UNCHANGED tables
        /\ IF data.status # HTTP_200_OK
           THEN Reply(req, data.status, {})
           ELSE ReplyData(req, HTTP_200_OK, data.value)

\* DjangoFilterBackend, the one filter backend of SubscriptionViewSet, with
\* the view's filter_class = IsOwnerFilterBackend, which is a filter
\* backend and no FilterSet.  A django-filter release that still reads the
\* attribute filter_class takes it for a FilterSet and raises on its
\* missing _meta ("raises"); a release that reads filterset_class only
\* leaves the queryset as it is ("ignored").  In neither is
\* IsOwnerFilterBackend.filter_queryset() called.
filter_class_outcomes == {"ignored", "raises"}

\* IsOwnerFilterBackend.filter_queryset(): queryset.filter(author=user).
IsOwnerFilterBackend_filter_queryset(user, queryset) ==
    {row \in queryset : row.author = user}

\* GenericAPIView.filter_queryset() of SubscriptionViewSet.
SubscriptionViewSet_filter_queryset(user, queryset, filter_class) ==
    IF filter_class = "raises"
    THEN [raised |-> TRUE, value |-> {}]
    ELSE [raised |-> FALSE, value |-> queryset]

\* ListModelMixin.list() of SubscriptionViewSet, GET users/subscriptions/:
\* IsAuthorOnly.has_permission() lets every GET in; the rows of
\* Subscription.objects.all() pass the filter backends and each is rendered
\* by SubscriptionSerializer as its author.  The response is the bag of the
\* entries.
SubscriptionViewSet_list(user, filter_class, query_params, reversed) ==
    LET req == [op |-> "subscription_list", user |-> user,
                data |-> [filter_class |-> filter_class,
                          query_params |-> query_params]]
        queryset ==
            SubscriptionViewSet_filter_queryset(user, Rows(subscriptions),
                                                filter_class)
        entry(row) ==
            SubscriptionListSerializer_data(user, row.author, query_params,
                                            reversed)
        failed == {entry(row).status : row \in queryset.value}
                      \ {HTTP_200_OK}
    IN  /\ UNCHANGED tables
        /\ IF queryset.raised
           THEN ReplyData(req, HTTP_500_INTERNAL_SERVER_ERROR,
                          [results |-> EmptyBag])
           ELSE IF failed # {}
           THEN ReplyData(req, CHOOSE st \in failed : TRUE,
                          [results |-> EmptyBag])
           ELSE ReplyData(
                    req, HTTP_200_OK,
                    [results |->
                        [e \in {entry(row).value : row \in queryset.value}
                            |-> Cardinality({row \in queryset.value :
                                                entry(row).value = e})]])

\* The admin site's add of a Recipe (RecipeAdmin): the admin picks the
\* author; the inline of Addamount rows is left empty.
RecipeAdmin_add(author) ==
    LET req == [op |-> "admin_add_recipe", user |-> None,
                data |-> [author |-> author]]
        pk == recipe_id_seq + 1
    IN  /\ recipe_id_seq < MaxRecipes
        /\ author \in users
        /\ Reply(req, HTTP_200_OK, {})
        /\ recipe_id_seq' = pk
        /\ recipes' = recipes @@
                      (pk :> [author |-> author, tags |-> {1},
                              cooking_time |-> 1])
        /\ UNCHANGED <<users, addamounts, favorites, carts, subscriptions>>

(***************************************************************************)
(* The database the requests start from: the users signed up, and the      *)
(* recipes entered through the admin site (RecipeAdmin with its inline of  *)
(* Addamount rows): recipe 1 with 10 of ingredient 1, recipe 2 with 5 of   *)
(* ingredient 2 and 1 of ingredient 3.                                     *)
(***************************************************************************)
InitialRecipes ==
    [r \in RecipeIds |->
        [author |-> r, tags |-> {1}, cooking_time |-> 1]]

InitialAddamounts ==
    SetToBag({[recipe |-> 1, ingredients |-> 1, amount |-> 10],
              [recipe |-> 2, ingredients |-> 2, amount |-> 5],
              [recipe |-> 2, ingredients |-> 3, amount |-> 1]})

Init ==
    /\ users = UserIds
    /\ recipes = InitialRecipes
    /\ recipe_id_seq = Cardinality(RecipeIds)
    /\ addamounts = InitialAddamounts
    /\ favorites = EmptyBag
    /\ carts = EmptyBag
    /\ subscriptions = EmptyBag
    /\ request = NoRequest
    /\ response = NoResponse
    /\ pre = DB
    /\ threads = NoThreads

\* The listing of the subscriptions is a function of the Subscription
\* table.  The requests leave that table empty (the CheckConstraint turns
\* every insert down), so to see what the listing makes of its rows the
\* table is drawn here from all sets of edges between two users.
SubscriptionTables ==
    {SetToBag(S) :
        S \in SUBSET {e \in [user : UserIds, author : UserIds] :
                         e.user # e.author}}

InitListing ==
    /\ users = UserIds
    /\ recipes = InitialRecipes
    /\ recipe_id_seq = Cardinality(RecipeIds)
    /\ addamounts = InitialAddamounts
    /\ favorites = EmptyBag
    /\ carts = EmptyBag
    /\ subscriptions \in SubscriptionTables
    /\ request = NoRequest
    /\ response = NoResponse
    /\ pre = DB
    /\ threads = NoThreads

(***************************************************************************)
(* The requests.                                                           *)
(***************************************************************************)
\* The server handles one request at a time, from its arrival to its
\* response.
Idle == request = NoRequest

Requesters == UserIds \cup {AnonymousUser}

PairData == [user : UserIds \cup {None}, recipe : RecipeIds \cup {None}]

IngredientItems == [id : {None, 1, 2}, amount : 0..MaxAmount]

IngredientLists ==
    UNION {[1..n -> IngredientItems] : n \in 0..MaxIngredients}

RecipeData ==
    [tags : {{}, {1}}, image : {None, 1}, name : {"", "n"},
     text : {"", "t"}, cooking_time : {None, 0, 1},
     ingredients : IngredientLists]

Favorites ==
    /\ Idle
    /\ \E user \in Requesters :
           \/ \E data \in PairData : FavoriteViewSet_create(user, data)
           \/ \E recipe_id \in RecipeIds \cup {None} :
                  FavoriteViewSet_delete(user, recipe_id)
           \/ \E row \in Rows(favorites) :
                  FavoriteViewSet_destroy(user, TRUE, row)
           \/ FavoriteViewSet_destroy(user, FALSE, None)

Carts ==
    /\ Idle
    /\ \E user \in Requesters :
           \/ \E data \in PairData : ShoppingCartViewSet_create(user, data)
           \/ \E recipe_id \in RecipeIds \cup {None} :
                  ShoppingCartViewSet_delete(user, recipe_id)
           \/ \E row \in Rows(carts) :
                  ShoppingCartViewSet_destroy(user, TRUE, row)
           \/ ShoppingCartViewSet_destroy(user, FALSE, None)

Subscriptions ==
    /\ Idle
    /\ \E user \in Requesters, id \in UserIds \cup {None} :
           \/ SubscriptionCreateDeleteAPIView_post(user, id)
           \/ SubscriptionCreateDeleteAPIView_delete(user, id)

Deletions ==
    /\ Idle
    /\ \/ \E user \in Requesters, pk \in RecipeIds :
              RecipeViewSet_destroy(user, pk)
       \/ \E id \in UserIds : CustomUserAdmin_delete(id)

Downloads ==
    /\ Idle
    /\ \E user \in Requesters, saved \in BOOLEAN :
           RecipeViewSet_download_shopping_cart(user, saved)

RecipeCreates ==
    /\ Idle
    /\ \E user \in Requesters, data \in RecipeData :
           RecipeViewSet_create(user, data)

\* The bodies of the update requests: RecipeData with a second tag.
UpdateData ==
    [tags : {{}, {1}, {2}}, image : {None, 1}, name : {"", "n"},
     text : {"", "t"}, cooking_time : {None, 0, 1},
     ingredients : IngredientLists]

RecipeUpdates ==
    /\ Idle
    /\ \E user \in Requesters, pk \in RecipeIds, data \in UpdateData,
          partial \in BOOLEAN :
           RecipeViewSet_update(user, pk, data, partial)

RecipeRetrieves ==
    /\ Idle
    /\ \E user \in Requesters, pk \in RecipeIds :
           \E reversed \in Reversed(user) :
               RecipeViewSet_retrieve(user, pk, reversed)

\* The query string of a listing: no recipes_limit, or one from -1 up.
QueryParams ==
    {<< >>} \cup {[recipes_limit |-> k] : k \in (-1)..MaxLimit}

\* The Subscription instances a representation is asked of: every pair of
\* users, whether or not the table holds the row.
SubscriptionInstances == [user : users, author : users]

SubscriptionRepresentations ==
    /\ Idle
    /\ \E user \in Requesters, instance \in SubscriptionInstances,
          query_params \in QueryParams :
           \E reversed \in Reversed(user) :
               SubscriptionSerializer_to_representation(
                   user, instance, query_params, reversed)

SubscriptionLists ==
    /\ Idle
    /\ \E user \in Requesters, filter_class \in filter_class_outcomes,
          query_params \in QueryParams :
           \E reversed \in Reversed(user) :
               SubscriptionViewSet_list(user, filter_class, query_params,
                                        reversed)

RecipeAdmins ==
    /\ Idle
    /\ \E author \in UserIds : RecipeAdmin_add(author)

\* Recipe writes with bodies that differ in tags and cooking_time alone.
SmallData ==
    {data \in UpdateData :
        /\ data.tags # {2}
        /\ data.image # None
        /\ data.name # ""
        /\ data.text # ""
        /\ data.ingredients = << >>}

RecipeWrites ==
    /\ Idle
    /\ \E user \in Requesters, data \in SmallData :
           \/ RecipeViewSet_create(user, data)
           \/ \E pk \in RecipeIds, partial \in BOOLEAN :
                  RecipeViewSet_update(user, pk, data, partial)

(***************************************************************************)
(* Two add requests handled side by side.  create() of FavoriteViewSet and *)
(* of ShoppingCartViewSet is four steps, each of which reads or writes the *)
(* table once: is_valid() (the existence checks), serializer.save() (the   *)
(* INSERT of the body's pair), perform_create() (the UPDATE to the         *)
(* requester's pair) and the response.  threads.atomic is the transaction  *)
(* mode: with a transaction around the request the row a thread has        *)
(* written is in its own record until the response commits it, is unseen   *)
(* by the other's is_valid(), and makes the other's write of the same pair *)
(* wait on the unique index; with autocommit every write is in the table   *)
(* at once.                                                                *)
(***************************************************************************)
TableOf(name) == IF name = "favorites" THEN favorites ELSE carts

SetTable(name, table) ==
    IF name = "favorites"
    THEN favorites' = table /\ UNCHANGED carts
    ELSE carts' = table /\ UNCHANGED favorites

\* The UniqueConstraint of the table's model.
UniqueConstraint(name, table, row) ==
    IF name = "favorites" THEN unique_user_favorites(table, row)
    ELSE unique_cart(table, row)

\* serializer.is_valid() of the table's serializer.
Serializer_is_valid(name, user, data) ==
    IF name = "favorites" THEN FavoriteSerializer_is_valid(data)
    ELSE ShoppingCartSerializer_is_valid(user, data)

\* The thread holds an uncommitted row.
Holds(t) ==
    /\ threads.atomic
    /\ threads.run[t].pc \in {"perform_create", "response"}

\* A write of the row by thread t has to wait: another transaction holds
\* the pair in the unique index.
Waits(t, row) ==
    \E t2 \in ThreadIds \ {t} :
        /\ Holds(t2)
        /\ threads.run[t2].table = threads.run[t].table
        /\ threads.run[t2].row = row

Run(t, thread) ==
    threads' = [threads EXCEPT !.run[t] = thread]

\* The request arrives: POST recipes/<recipe_id>/favorite/ or
\* .../shopping_cart/ with the body data.
Create_request(t, name, user, data) ==
    /\ threads.run[t].pc = "idle"
    /\ Run(t, [pc |-> "is_valid", table |-> name, user |-> user,
               data |-> data, row |-> NoRow, status |-> None])
    /\ UNCHANGED <<tables, request, response, pre>>

\* permission_classes = (IsAuthenticated,), then
\* serializer.is_valid(raise_exception=True).
Create_is_valid(t) ==
    LET thread == threads.run[t]
    IN  /\ thread.pc = "is_valid"
        /\ IF ~is_authenticated(thread.user)
           THEN Run(t, [thread EXCEPT !.pc = "done",
                                      !.status = HTTP_401_UNAUTHORIZED])
           ELSE IF ~Serializer_is_valid(thread.table, thread.user,
                                        thread.data)
           THEN Run(t, [thread EXCEPT !.pc = "done",
                                      !.status = HTTP_400_BAD_REQUEST])
           ELSE Run(t, [thread EXCEPT !.pc = "save"])
        /\ UNCHANGED <<tables, request, response, pre>>

\* serializer.save(): the INSERT of the body's pair.  IntegrityError is an
\* unhandled exception, a 500.
Create_save(t) ==
    LET thread == threads.run[t]
        created == [user |-> thread.data.user, recipe |-> thread.data.recipe]
        table == TableOf(thread.table)
    IN  /\ thread.pc = "save"
        /\ ~Waits(t, created)
        /\ IF ~UniqueConstraint(thread.table, table, created)
           THEN /\ Run(t, [thread EXCEPT
                               !.pc = "done",
                               !.status = HTTP_500_INTERNAL_SERVER_ERROR])
                /\ UNCHANGED <<favorites, carts>>
           ELSE /\ Run(t, [thread EXCEPT !.pc = "perform_create",
                                         !.row = created])
                /\ SetTable(thread.table,
                            IF threads.atomic THEN table
                            ELSE INSERT(table, created))
        /\ UNCHANGED <<users, recipes, recipe_id_seq, addamounts,
                       subscriptions, request, response, pre>>

\* perform_create(): serializer.save(user=self.request.user), the UPDATE of
\* the row just inserted.  When it fails, a transaction takes the inserted
\* row back and autocommit leaves it.
Create_perform_create(t) ==
    LET thread == threads.run[t]
        saved == [user |-> thread.user, recipe |-> thread.data.recipe]
        table == TableOf(thread.table)
        others == IF threads.atomic THEN table
                  ELSE DELETE_ONE(table, thread.row)
    IN  /\ thread.pc = "perform_create"
        /\ saved # thread.row => ~Waits(t, saved)
        /\ IF saved = thread.row
           THEN /\ Run(t, [thread EXCEPT !.pc = "response"])
                /\ UNCHANGED <<favorites, carts>>
           ELSE IF ~UniqueConstraint(thread.table, others, saved)
           THEN /\ Run(t, [thread EXCEPT
                               !.pc = "done", !.row = NoRow,
                               !.status = HTTP_500_INTERNAL_SERVER_ERROR])
                /\ UNCHANGED <<favorites, carts>>
           ELSE /\ Run(t, [thread EXCEPT !.pc = "response",
                                         !.row = saved])
                /\ SetTable(thread.table,
                            IF threads.atomic THEN table
                            ELSE INSERT(others, saved))
        /\ UNCHANGED <<users, recipes, recipe_id_seq, addamounts,
                       subscriptions, request, response, pre>>

\* return Response(..., status=HTTP_201_CREATED): the transaction of the
\* request commits.
Create_response(t) ==
    LET thread == threads.run[t]
        table == TableOf(thread.table)
    IN  /\ thread.pc = "response"
        /\ Run(t, [thread EXCEPT !.pc = "done",
                                 !.status = HTTP_201_CREATED])
        /\ SetTable(thread.table,
                    IF threads.atomic THEN INSERT(table, thread.row)
                    ELSE table)
        /\ UNCHANGED <<users, recipes, recipe_id_seq, addamounts,
                       subscriptions, request, response, pre>>

\* Two transactions that wait on each other's pair: the database ends one
\* of them (a deadlock error, a 500) and its row is taken back.
Create_deadlock(t) ==
    LET thread == threads.run[t]
        saved == [user |-> thread.user, recipe |-> thread.data.recipe]
    IN  /\ thread.pc = "perform_create"
        /\ saved # thread.row
        /\ Waits(t, saved)
        /\ \E t2 \in ThreadIds \ {t} :
               /\ threads.run[t2].pc = "perform_create"
               /\ threads.run[t2].table = thread.table
               /\ [user |-> threads.run[t2].user,
                   recipe |-> threads.run[t2].data.recipe] = thread.row
        /\ Run(t, [thread EXCEPT !.pc = "done", !.row = NoRow,
                                 !.status = HTTP_500_INTERNAL_SERVER_ERROR])
        /\ UNCHANGED <<tables, request, response, pre>>

\* The responses have gone out.
Create_done ==
    /\ \A t \in ThreadIds : threads.run[t].pc \in {"idle", "done"}
    /\ \E t \in ThreadIds : threads.run[t].pc = "done"
    /\ threads' = [threads EXCEPT !.run = [t \in ThreadIds |-> IdleThread]]
    /\ UNCHANGED <<tables, request, response, pre>>

\* The bodies of the racing requests: a user and the first recipe.
RaceData == [user : UserIds, recipe : {1}]

Races ==
    /\ Idle
    /\ \E t \in ThreadIds :
           \/ \E name \in {"favorites", "carts"}, user \in Requesters,
                 data \in RaceData :
                  Create_request(t, name, user, data)
           \/ Create_is_valid(t)
           \/ Create_save(t)
           \/ Create_perform_create(t)
           \/ Create_response(t)
           \/ Create_deadlock(t)

RacesDone ==
    /\ Idle
    /\ Create_done

\* The response has gone out (return Response(...)): the record of the
\* request is dropped.
Deliver ==
    /\ request # NoRequest
    /\ request' = NoRequest
    /\ response' = NoResponse
    /\ pre' = DB
    /\ UNCHANGED <<tables, threads>>

Next ==
    \/ Deliver
    \/ Favorites
    \/ Carts
    \/ Subscriptions
    \/ Deletions
    \/ Downloads
    \/ RecipeCreates
    \/ RecipeUpdates
    \/ RecipeRetrieves
    \/ RecipeWrites
    \/ RecipeAdmins
    \/ SubscriptionRepresentations
    \/ SubscriptionLists
    \/ Races
    \/ RacesDone

Spec == Init /\ [][Next]_vars

\* The requests on the membership tables, the deletions and the download.
NextMembership ==
    \/ Deliver
    \/ Favorites
    \/ Carts
    \/ Subscriptions
    \/ Deletions
    \/ Downloads

SpecMembership == Init /\ [][NextMembership]_vars

\* The recipe requests.
NextRecipe ==
    \/ Deliver
    \/ RecipeCreates
    \/ RecipeUpdates
    \/ RecipeRetrieves

SpecRecipe == Init /\ [][NextRecipe]_vars

\* Recipes read and written next to the favorites and the carts.
NextRead ==
    \/ Deliver
    \/ Favorites
    \/ Carts
    \/ RecipeRetrieves
    \/ RecipeWrites

SpecRead == Init /\ [][NextRead]_vars

\* The recipes of the authors as the admin adds and the API removes them,
\* and the authors rendered for a subscriber.
NextList ==
    \/ Deliver
    \/ RecipeAdmins
    \/ Deletions
    \/ SubscriptionRepresentations

SpecList == Init /\ [][NextList]_vars

\* GET users/subscriptions/ over every Subscription table.
NextListing ==
    \/ Deliver
    \/ SubscriptionLists

SpecListing == InitListing /\ [][NextListing]_vars

\* Add requests side by side, under a transaction per request and under
\* autocommit (the settings module that chooses is not in the sources).
InitRace ==
    /\ users = UserIds
    /\ recipes = InitialRecipes
    /\ recipe_id_seq = Cardinality(RecipeIds)
    /\ addamounts = InitialAddamounts
    /\ favorites = EmptyBag
    /\ carts = EmptyBag
    /\ subscriptions = EmptyBag
    /\ request = NoRequest
    /\ response = NoResponse
    /\ pre = DB
    /\ threads \in {[NoThreads EXCEPT !.atomic = b] : b \in BOOLEAN}

NextRace ==
    \/ Races
    \/ RacesDone

SpecRace == InitRace /\ [][NextRace]_vars

(***************************************************************************)
(* Properties.                                                             *)
(***************************************************************************)
Member(table, user, recipe) ==
    \E row \in DOMAIN table : row.user = user /\ row.recipe = recipe

Unchanged == DB = pre

IsError(status) == status >= HTTP_400_BAD_REQUEST

C2_Remove ==
    /\ (/\ request.op = "favorite_delete"
        /\ request.user \in pre.users
        /\ request.data.recipe_id \in DOMAIN pre.recipes)
       => LET pair == [user |-> request.user,
                       recipe |-> request.data.recipe_id]
          IN  IF pair \in DOMAIN pre.favorites
              THEN /\ response.status = HTTP_204_NO_CONTENT
                   /\ favorites =
                          [row \in (DOMAIN pre.favorites) \ {pair} |->
                              pre.favorites[row]]
                   /\ carts = pre.carts
              ELSE /\ IsError(response.status)
                   /\ Unchanged
    /\ (/\ request.op = "cart_delete"
        /\ request.user \in pre.users
        /\ request.data.recipe_id \in DOMAIN pre.recipes)
       => LET pair == [user |-> request.user,
                       recipe |-> request.data.recipe_id]
          IN  IF pair \in DOMAIN pre.carts
              THEN /\ response.status = HTTP_204_NO_CONTENT
                   /\ carts =
                          [row \in (DOMAIN pre.carts) \ {pair} |->
                              pre.carts[row]]
                   /\ favorites = pre.favorites
              ELSE /\ IsError(response.status)
                   /\ Unchanged

\* A user removes from the cart a recipe that is in another user's cart and
\* not in theirs.
C2_Witness ==
    /\ request.op = "cart_delete"
    /\ request.user \in pre.users
    /\ request.data.recipe_id \in DOMAIN pre.recipes
    /\ ~Member(pre.carts, request.user, request.data.recipe_id)
    /\ \E row \in DOMAIN pre.carts : row.recipe = request.data.recipe_id
    /\ response.status = HTTP_400_BAD_REQUEST

\* C3: no (user, recipe) pair has more than one Favorite row or more than
\* one ShoppingCart row.
C3_UniqueRows ==
    /\ \A row \in DOMAIN favorites : favorites[row] = 1
    /\ \A row \in DOMAIN carts : carts[row] = 1

\* An add on behalf of a requester whose pair is a member, with another
\* user in the body: the second save of the handler meets the constraint.
C3_Witness ==
    /\ request.op = "favorite_create"
    /\ request.user # request.data.user
    /\ ~Member(pre.favorites, request.data.user, request.data.recipe)
    /\ Member(pre.favorites, request.user, request.data.recipe)
    /\ response.status = HTTP_500_INTERNAL_SERVER_ERROR

\* C4: a subscribe request of a user to themselves is answered with an
\* error and adds no row, and no Subscription row has user = author.
C4_NoSelfSubscription ==
    /\ (request.op = "subscribe_post"
        /\ request.data.user = request.data.author)
       => IsError(response.status) /\ Unchanged
    /\ \A row \in DOMAIN subscriptions : row.user # row.author

\* A signed-in user asks to subscribe to themselves.
C4_Witness ==
    /\ request.op = "subscribe_post"
    /\ request.user \in pre.users
    /\ request.data.author = request.user
    /\ IsError(response.status)

\* The (name, unit) groups of the ingredients of the recipes in the cart of
\* a user, each with the sum of the amounts of its Addamount rows.
CartRecipes(db, user) ==
    {row.recipe : row \in {x \in DOMAIN db.carts : x.user = user}}

CartAddamounts(db, user) ==
    {[row |-> a, k |-> k, amount |-> a.amount] :
        <<a, k>> \in {t \in (DOMAIN db.addamounts) \X (1..3) :
                        /\ t[1].recipe \in CartRecipes(db, user)
                        /\ t[2] <= db.addamounts[t[1]]}}

GroupOf(x) ==
    <<Ingredient[x.row.ingredients].name,
      Ingredient[x.row.ingredients].measurement_unit>>

CartGroups(db, user) == {GroupOf(x) : x \in CartAddamounts(db, user)}

GroupTotal(db, user, g) ==
    SumOf({x \in CartAddamounts(db, user) : GroupOf(x) = g})

\* C6: the shopping list a signed-in user downloads holds, for every
\* (name, unit) group of their cart, the sum of the amounts of the group.
C6_ListTotals ==
    (request.op = "download_shopping_cart" /\ request.user \in pre.users)
    => \A g \in CartGroups(pre, request.user) :
           \E line \in response.list :
               /\ line.name = g[1]
               /\ line.measurement_unit = g[2]
               /\ line.total = GroupTotal(pre, request.user, g)

\* C7: the shopping list a signed-in user downloads has exactly one line
\* for every (name, unit) pair of their cart.
C7_OneLinePerGroup ==
    (request.op = "download_shopping_cart" /\ request.user \in pre.users)
    => /\ {<<line.name, line.measurement_unit>> : line \in response.list}
              = CartGroups(pre, request.user)
       /\ Cardinality(response.list)
              = Cardinality(CartGroups(pre, request.user))

\* C8: once a recipe is deleted, no Favorite, ShoppingCart or Addamount row
\* refers to it.
C8_RecipeCascade ==
    \A r \in (DOMAIN pre.recipes) \ (DOMAIN recipes) :
        /\ \A row \in DOMAIN favorites : row.recipe # r
        /\ \A row \in DOMAIN carts : row.recipe # r
        /\ \A row \in DOMAIN addamounts : row.recipe # r

\* A recipe is deleted that had ingredient links and was in the favorites
\* and in a cart.
C8_Witness ==
    /\ request.op = "recipe_destroy"
    /\ response.status = HTTP_204_NO_CONTENT
    /\ request.data.pk \notin DOMAIN recipes
    /\ \E row \in DOMAIN pre.favorites : row.recipe = request.data.pk
    /\ \E row \in DOMAIN pre.carts : row.recipe = request.data.pk
    /\ \E row \in DOMAIN pre.addamounts : row.recipe = request.data.pk

\* C9: once a user is deleted, there is no recipe of theirs, no ingredient
\* link, favorite or cart entry of a recipe of theirs, no favorite or cart
\* entry of their own, and no subscription of or to them.
C9_UserCascade ==
    \A u \in pre.users \ users :
        LET theirs == {r \in DOMAIN pre.recipes : pre.recipes[r].author = u}
        IN  /\ \A r \in DOMAIN recipes : recipes[r].author # u
            /\ theirs \cap DOMAIN recipes = {}
            /\ \A row \in DOMAIN addamounts : row.recipe \notin theirs
            /\ \A row \in DOMAIN favorites :
                   row.recipe \notin theirs /\ row.user # u
            /\ \A row \in DOMAIN carts :
                   row.recipe \notin theirs /\ row.user # u
            /\ \A row \in DOMAIN subscriptions :
                   row.user # u /\ row.author # u

\* A user is deleted who had a recipe that another user kept in the
\* favorites and in the cart, and a favorite and a cart entry of their own.
C9_Witness ==
    /\ request.op = "admin_delete_user"
    /\ request.data.id \notin users
    /\ \E row \in DOMAIN pre.favorites :
           /\ row.user # request.data.id
           /\ pre.recipes[row.recipe].author = request.data.id
    /\ \E row \in DOMAIN pre.carts :
           /\ row.user # request.data.id
           /\ pre.recipes[row.recipe].author = request.data.id
    /\ \E row \in DOMAIN pre.favorites : row.user = request.data.id
    /\ \E row \in DOMAIN pre.carts : row.user = request.data.id

Repeats(ingredients) ==
    \E i, j \in DOMAIN ingredients :
        i # j /\ ingredients[i].id = ingredients[j].id

\* C10: a recipe create request whose ingredient list names an ingredient
\* twice is answered with an error and persists nothing, and no recipe has
\* two Addamount rows of one ingredient.
C10_RepeatedIngredientRejected ==
    /\ (request.op = "recipe_create" /\ Repeats(request.data.ingredients))
       => IsError(response.status) /\ Unchanged
    /\ \A a \in DOMAIN addamounts :
           /\ addamounts[a] = 1
           /\ \A b \in DOMAIN addamounts :
                  (a.recipe = b.recipe /\ a.ingredients = b.ingredients)
                  => a = b

\* A signed-in user posts a recipe, valid but for an ingredient of the
\* catalogue named twice.
C10_Witness ==
    /\ request.op = "recipe_create"
    /\ request.user \in pre.users
    /\ RecipeManipulationSerializer_to_internal_value(request.data)
    /\ request.data.tags # {}
    /\ Repeats(request.data.ingredients)
    /\ \A i \in DOMAIN request.data.ingredients :
           /\ request.data.ingredients[i].id \in DOMAIN Ingredient
           /\ request.data.ingredients[i].amount >= MINIMUM
    /\ IsError(response.status)
    /\ Unchanged

\* The body of a recipe request and the recipe it is about.
Body == IF request.op = "recipe_update" THEN request.data.body
        ELSE request.data

IsRecipeWrite == request.op \in {"recipe_create", "recipe_update"}

LinksOf(adds, r) == {row \in DOMAIN adds : row.recipe = r}

LinksGiven(r, L) ==
    {[recipe |-> r, ingredients |-> L[i].id, amount |-> L[i].amount] :
        i \in DOMAIN L}

\* C12: after a successful update of a recipe by its author with an
\* ingredient list L, the Addamount rows of the recipe are exactly the pairs
\* of L.
C12_UpdateReplacesIngredients ==
    (/\ request.op = "recipe_update"
     /\ response.status = HTTP_200_OK
     /\ request.user = pre.recipes[request.data.pk].author)
    => /\ LinksOf(addamounts, request.data.pk)
              = LinksGiven(request.data.pk, Body.ingredients)
       /\ \A row \in LinksOf(addamounts, request.data.pk) :
              addamounts[row] = 1

\* C13: after a successful create or update of a recipe with the tag list
\* T, the tags of the recipe are exactly T and the tags of every other
\* recipe are as before.
C13_TagsReplaced ==
    /\ (request.op = "recipe_update" /\ response.status = HTTP_200_OK)
       => /\ recipes[request.data.pk].tags = Body.tags
          /\ \A r \in (DOMAIN recipes) \ {request.data.pk} :
                 recipes[r].tags = pre.recipes[r].tags
    /\ (request.op = "recipe_create"
        /\ response.status = HTTP_201_CREATED)
       => /\ \A r \in (DOMAIN recipes) \ (DOMAIN pre.recipes) :
                 recipes[r].tags = Body.tags
          /\ \A r \in DOMAIN pre.recipes :
                 r \in DOMAIN recipes
                 /\ recipes[r].tags = pre.recipes[r].tags

\* C17: every stored recipe has cooking_time >= 1, and a create or update
\* request whose cooking_time is left out, zero or negative is answered
\* with an error and leaves the recipes as they were.
C17_CookingTime ==
    /\ \A r \in DOMAIN recipes : recipes[r].cooking_time >= 1
    /\ (IsRecipeWrite /\ Body.cooking_time < 1)
       => IsError(response.status) /\ recipes = pre.recipes

\* The author of a recipe sends an update, valid but for a cooking_time
\* of zero.
C17_Witness ==
    /\ request.op = "recipe_update"
    /\ request.user = pre.recipes[request.data.pk].author
    /\ Body.tags # {}
    /\ Body.image # None
    /\ Body.name # ""
    /\ Body.text # ""
    /\ Body.cooking_time = 0
    /\ response.status = HTTP_400_BAD_REQUEST
    /\ recipes = pre.recipes

\* C18: every stored Addamount row has amount >= 1, and a create or update
\* request with an ingredient of amount below 1 is answered with an error
\* and stores no link.
C18_AmountAtLeastOne ==
    /\ \A row \in DOMAIN addamounts : row.amount >= 1
    /\ (/\ IsRecipeWrite
        /\ \E i \in DOMAIN Body.ingredients :
               Body.ingredients[i].amount < 1)
       => IsError(response.status) /\ addamounts = pre.addamounts

\* The validation rules of a recipe body in the order they are stated, and
\* the first of them a body breaks.
RuleOrder ==
    <<"tags", "image", "name", "text", "cooking_time", "ingredients",
      "not_found", "amount", "repeated">>

Breaks(body, rule) ==
    \/ rule = "tags" /\ body.tags = {}
    \/ rule = "image" /\ body.image = None
    \/ rule = "name" /\ body.name = ""
    \/ rule = "text" /\ body.text = ""
    \/ rule = "cooking_time" /\ body.cooking_time < 1
    \/ rule = "ingredients" /\ Len(body.ingredients) = 0
    \/ rule = "not_found"
       /\ \E i \in DOMAIN body.ingredients :
              body.ingredients[i].id \notin DOMAIN Ingredient
    \/ rule = "amount"
       /\ \E i \in DOMAIN body.ingredients : body.ingredients[i].amount < 1
    \/ rule = "repeated" /\ Repeats(body.ingredients)

BreaksSome(body) == \E k \in DOMAIN RuleOrder : Breaks(body, RuleOrder[k])

EarliestBroken(body) ==
    RuleOrder[CHOOSE k \in DOMAIN RuleOrder :
                  /\ Breaks(body, RuleOrder[k])
                  /\ \A j \in 1..(k - 1) : ~Breaks(body, RuleOrder[j])]

\* C14: the response to a create request of a signed-in user that breaks
\* validation rules is an error that reports the first rule broken, in the
\* order tags, image, name, text, cooking_time, ingredient list non-empty,
\* ingredient ids exist, amounts >= 1, no repeated ingredient id, and no
\* other rule.
C14_EarliestRuleReported ==
    (/\ request.op = "recipe_create"
     /\ request.user \in pre.users
     /\ BreaksSome(Body))
    => /\ IsError(response.status)
       /\ {d[2] : d \in response.data.detail} = {EarliestBroken(Body)}

\* C15: in the recipe a signed-in user reads with GET, is_favorited tells
\* whether the user's Favorite row of the recipe exists and
\* is_in_shopping_cart whether the user's ShoppingCart row of it exists.
C15_FlagsOnRead ==
    (/\ request.op = "recipe_retrieve"
     /\ response.status = HTTP_200_OK
     /\ request.user \in pre.users)
    => /\ response.data.is_favorited
              <=> Member(favorites, request.user, request.data.pk)
       /\ response.data.is_in_shopping_cart
              <=> Member(carts, request.user, request.data.pk)

\* C16: is_favorited and is_in_shopping_cart are both false in the recipe
\* an anonymous requester reads and in the recipe every create (POST) and
\* update (PUT, PATCH) answers with, whatever rows exist.
C16_FlagsFalse ==
    (\/ /\ request.op = "recipe_retrieve"
        /\ response.status = HTTP_200_OK
        /\ request.user = AnonymousUser
     \/ /\ request.op = "recipe_update"
        /\ response.status = HTTP_200_OK
     \/ /\ request.op = "recipe_create"
        /\ response.status = HTTP_201_CREATED)
    => /\ ~response.data.is_favorited
       /\ ~response.data.is_in_shopping_cart

\* A user updates a recipe that is in their favorites and in their cart.
C16_Witness ==
    /\ request.op = "recipe_update"
    /\ response.status = HTTP_200_OK
    /\ Member(favorites, request.user, request.data.pk)
    /\ Member(carts, request.user, request.data.pk)
    /\ ~response.data.is_favorited
    /\ ~response.data.is_in_shopping_cart

\* The author a representation is asked of, the recipes of the author, and
\* the limit the request gives.
IsRepresentation == request.op = "subscription_representation"

RecipesOf(db, author) ==
    {r \in DOMAIN db.recipes : db.recipes[r].author = author}

LimitGiven == "recipes_limit" \in DOMAIN request.data.query_params

Min(a, b) == IF a < b THEN a ELSE b

\* C19: in the entry of an author in a subscription listing, recipes_count
\* is the number of all recipes of the author when the requester is signed
\* in, whatever recipes_limit is; for an anonymous requester the request
\* ends in an error (not-authenticated from the count when the fields
\* before it raise nothing) and never in a count of zero.
C19_RecipesCount ==
    IsRepresentation
    => /\ request.user \in pre.users
          => /\ response.status = HTTP_200_OK
                => response.data.recipes_count =
                       Cardinality(RecipesOf(pre,
                                             request.data.instance.author))
             /\ (LimitGiven
                 => request.data.query_params["recipes_limit"] >= 0)
                => response.status = HTTP_200_OK
       /\ request.user \notin pre.users
          => response.status \in {HTTP_401_UNAUTHORIZED,
                                  HTTP_500_INTERNAL_SERVER_ERROR}

\* A signed-in user gets an author with two recipes or more under a limit
\* below the count.
C19_Witness ==
    /\ IsRepresentation
    /\ request.user \in pre.users
    /\ LimitGiven
    /\ response.status = HTTP_200_OK
    /\ response.data.recipes_count >= 2
    /\ request.data.query_params["recipes_limit"]
           < response.data.recipes_count

\* C20: the recipes in the entry of an author with n recipes are all n when
\* no recipes_limit is given and min(k, n) of them when recipes_limit = k;
\* each of them is a recipe of the author, and none comes twice.
C20_RecipesLimit ==
    (IsRepresentation /\ response.status = HTTP_200_OK)
    => LET theirs == RecipesOf(pre, request.data.instance.author)
           n == Cardinality(theirs)
           returned == response.data.recipes
           ids == {returned[i].id : i \in DOMAIN returned}
       IN  /\ ids \subseteq theirs
           /\ Cardinality(ids) = Len(returned)
           /\ IF LimitGiven
              THEN Len(returned) =
                       Min(request.data.query_params["recipes_limit"], n)
              ELSE ids = theirs

\* A limit of one for an author with two recipes or more returns one
\* recipe.
C20_Witness ==
    /\ IsRepresentation
    /\ response.status = HTTP_200_OK
    /\ LimitGiven
    /\ request.data.query_params["recipes_limit"] = 1
    /\ Cardinality(RecipesOf(pre, request.data.instance.author)) >= 2
    /\ Len(response.data.recipes) = 1

(***************************************************************************)
(* C21: the listing of the subscriptions.                                  *)
(***************************************************************************)
IsListing ==
    /\ request.op = "subscription_list"
    /\ is_authenticated(request.user)
    /\ response.status = HTTP_200_OK

\* The authors the requester follows.
Followed(db, user) ==
    {row.author : row \in {x \in Rows(db.subscriptions) : x.user = user}}

C23_FailedCreateLeavesNothing ==
    (request.op = "recipe_create" /\ IsError(response.status)) =>
        /\ recipes = pre.recipes
        /\ addamounts = pre.addamounts

\* A create that passed validation, with tags and ingredients in its body,
\* and failed in save().
C23_Witness ==
    /\ request.op = "recipe_create"
    /\ is_authenticated(request.user)
    /\ response.status = HTTP_500_INTERNAL_SERVER_ERROR
    /\ request.data.tags # {}
    /\ Len(request.data.ingredients) > 0
    /\ recipes = pre.recipes
    /\ addamounts = pre.addamounts

(***************************************************************************)
(* C24: two adds of the same pair side by side.                            *)
(***************************************************************************)
\* Both requests are answered, they asked for the same pair - the requester
\* and a recipe - on the same table, and both passed is_valid(), which the
\* second can only do before the first's row is in the table.
SamePairRace ==
    /\ \A t \in ThreadIds :
           /\ threads.run[t].pc = "done"
           /\ threads.run[t].table = threads.run[1].table
           /\ threads.run[t].data = threads.run[1].data
           /\ threads.run[t].user = threads.run[1].data.user
           /\ threads.run[t].status
                  \notin {HTTP_400_BAD_REQUEST, HTTP_401_UNAUTHORIZED}

\* C24: of two add requests for the same absent pair that both passed the
\* existence check, one is answered 201 and the other fails on the
\* uniqueness constraint, and the table holds the pair once.
C24_OneInsertWins ==
    SamePairRace =>
        /\ {threads.run[t].status : t \in ThreadIds}
               = {HTTP_201_CREATED, HTTP_500_INTERNAL_SERVER_ERROR}
        /\ CopiesIn(threads.run[1].data, TableOf(threads.run[1].table)) = 1

C24_Witness ==
    /\ SamePairRace
    /\ threads.run[1].status = HTTP_500_INTERNAL_SERVER_ERROR
    /\ threads.run[2].status = HTTP_201_CREATED
    /\ CopiesIn(threads.run[1].data, TableOf(threads.run[1].table)) = 1

(***************************************************************************)
(* C25: rows are inserted and deleted, never updated.                      *)
(***************************************************************************)
\* C25: the row an add request has written keeps its user and its recipe
\* for as long as the request goes on: no step of the request writes the
\* row a second time with another pair.
C25_NoUpdateInPlace ==
    [][\A t \in ThreadIds :
          (threads.run[t].row # NoRow /\ threads'.run[t].row # NoRow)
              => threads'.run[t].row = threads.run[t].row]_vars

(***************************************************************************)
(* C26: the favorites and the cart do not touch each other.                *)
(***************************************************************************)
FavoriteOps == {"favorite_create", "favorite_delete", "favorite_destroy"}
CartOps == {"cart_create", "cart_delete", "cart_destroy"}

\* C26: a request on the favorites, answered with success or with an
\* error, leaves the cart table as it was, and a request on the cart
\* leaves the favorites as they were.
C26_TogglesIndependent ==
    /\ request.op \in FavoriteOps => carts = pre.carts
    /\ request.op \in CartOps => favorites = pre.favorites

\* A user takes out of the cart a recipe that is also among their
\* favorites, and it stays a favorite.
C26_Witness ==
    /\ request.op \in {"cart_delete", "cart_destroy"}
    /\ response.status = HTTP_204_NO_CONTENT
    /\ carts # pre.carts
    /\ \E row \in DOMAIN pre.carts :
           /\ row \notin DOMAIN carts
           /\ row \in DOMAIN favorites
    /\ favorites = pre.favorites

(***************************************************************************)
(* C27: the shopping list is made of the requester's own cart.             *)
(***************************************************************************)
\* The cart rows of the user alone.
OwnCart(db, user) ==
    [row \in {x \in DOMAIN db.carts : x.user = user} |-> db.carts[row]]

\* The rows the query of the download gives for the requester.
Queried(cart) ==
    ShoppingCart_values_annotate(pre.addamounts, cart, request.user)

\* C27: the rows the download of a signed-in user U is made of are the
\* (name, unit) groups of the recipes in U's cart, each Addamount row of
\* such a recipe counted once whoever else has the recipe in a cart, and
\* they are the same with every other user's cart rows taken away.
C27_OwnCartOnly ==
    (request.op = "download_shopping_cart" /\ request.user \in pre.users)
    => /\ {<<f.ingredients__name, f.ingredients__measurement_unit>> :
              f \in Queried(pre.carts)} = CartGroups(pre, request.user)
       /\ \A f \in Queried(pre.carts) :
              f.total = GroupTotal(pre, request.user,
                                   <<f.ingredients__name,
                                     f.ingredients__measurement_unit>>)
       /\ Queried(pre.carts) = Queried(OwnCart(pre, request.user))

\* A user downloads with one recipe in the cart, which another user has
\* in the cart too, next to a recipe that only the other user has.
C27_Witness ==
    /\ request.op = "download_shopping_cart"
    /\ request.user \in pre.users
    /\ \E r \in CartRecipes(pre, request.user) :
           \E row \in DOMAIN pre.carts :
               row.user # request.user /\ row.recipe = r
    /\ \E row \in DOMAIN pre.carts :
           /\ row.user # request.user
           /\ row.recipe \notin CartRecipes(pre, request.user)
    /\ Queried(pre.carts) # {}
    /\ Queried(pre.carts) = Queried(OwnCart(pre, request.user))

(***************************************************************************)
(* C28: a recipe is changed and removed by its author alone.               *)
(***************************************************************************)
\* C28: after an update or a delete request on a stored recipe by anyone
\* but its author, signed in or anonymous, the recipe is still there with
\* the fields, the tags and the ingredient links it had.
C28_AuthorOnly ==
    (/\ request.op \in {"recipe_update", "recipe_destroy"}
     /\ request.data.pk \in DOMAIN pre.recipes
     /\ request.user # pre.recipes[request.data.pk].author)
    => /\ request.data.pk \in DOMAIN recipes
       /\ recipes[request.data.pk] = pre.recipes[request.data.pk]
       /\ \A row \in LinksOf(pre.addamounts, request.data.pk) :
              /\ row \in DOMAIN addamounts
              /\ addamounts[row] = pre.addamounts[row]
       /\ LinksOf(addamounts, request.data.pk)
              = LinksOf(pre.addamounts, request.data.pk)

(***************************************************************************)
(* C29: the row of a successful add is the requester's.                    *)
(***************************************************************************)
\* C29: after an add request answered 201, the table is what it was with
\* one row more, the pair of the requester and the recipe of the body:
\* the user of the body is not stored and no other row has come or gone.
C29_RowOfRequester ==
    /\ (request.op = "favorite_create"
        /\ response.status = HTTP_201_CREATED)
       => favorites = INSERT(pre.favorites,
                             [user |-> request.user,
                              recipe |-> request.data.recipe])
    /\ (request.op = "cart_create"
        /\ response.status = HTTP_201_CREATED)
       => carts = INSERT(pre.carts,
                         [user |-> request.user,
                          recipe |-> request.data.recipe])

\* An add whose body names another user than the requester is answered
\* 201; no row of the user the body names is in the table.
C29_Witness ==
    /\ request.op = "favorite_create"
    /\ response.status = HTTP_201_CREATED
    /\ request.data.user # request.user
    /\ [user |-> request.user, recipe |-> request.data.recipe]
           \in DOMAIN favorites
    /\ \A row \in DOMAIN favorites : row.user # request.data.user

(***************************************************************************)
(* C30: subscribe and unsubscribe.                                         *)
(***************************************************************************)
Edge == [user |-> request.user, author |-> request.data.author]

\* C30: a subscribe of a signed-in user to another, existing user they do
\* not follow yet is answered 201 and adds that edge and nothing else; an
\* unsubscribe removes exactly the edge when it is there and otherwise is
\* answered with an error and changes nothing.
C30_SubscribeUnsubscribe ==
    /\ (/\ request.op = "subscribe_post"
        /\ request.user \in pre.users
        /\ request.data.author \in pre.users
        /\ request.data.author # request.user
        /\ Edge \notin DOMAIN pre.subscriptions)
       => /\ response.status = HTTP_201_CREATED
          /\ subscriptions = INSERT(pre.subscriptions, Edge)
    /\ (request.op = "subscribe_delete" /\ request.user \in pre.users)
       => IF Edge \in DOMAIN pre.subscriptions
          THEN /\ response.status = HTTP_204_NO_CONTENT
               /\ subscriptions = DELETE(pre.subscriptions, {Edge})
          ELSE /\ IsError(response.status)
               /\ Unchanged

====
